---- MODULE Spec2Model ----
(***************************************************************************)
(* Model of scheduler-check.py: GlobalEntryChecker.run() performs one      *)
(* fetch / filter / notify cycle.  Python values are tagged records,       *)
(* Python strings are sequences of one-character strings, so that          *)
(* str.split, the `in` operator and datetime.strptime are computed.        *)
(***************************************************************************)
EXTENDS Integers, Sequences, FiniteSets, TLC

\* Largest `active` / `total` count carried by a fetched record.
MaxCount == 1

-----------------------------------------------------------------------------
\* Python values

PyNone == [type |-> "NoneType"]
PyBool(b) == [type |-> "bool", v |-> b]
PyInt(n) == [type |-> "int", v |-> n]
PyStr(s) == [type |-> "str", v |-> s]
PyList(items) == [type |-> "list", v |-> items]
PyDict(f) == [type |-> "dict", v |-> f]
PyDatetime(d) == [type |-> "datetime", v |-> d]

\* Python truth value testing (`if x`, `not x`, all([...])).
Truthy(x) ==
    CASE x.type = "NoneType" -> FALSE
      [] x.type = "bool" -> x.v
      [] x.type = "int" -> x.v # 0
      [] x.type = "str" -> Len(x.v) > 0
      [] x.type = "list" -> Len(x.v) > 0
      [] x.type = "dict" -> DOMAIN x.v # {}
      [] OTHER -> TRUE

-----------------------------------------------------------------------------
\* Strings

Digits == {"0", "1", "2", "3", "4", "5", "6", "7", "8", "9"}

DigitVal ==
    ("0" :> 0) @@ ("1" :> 1) @@ ("2" :> 2) @@ ("3" :> 3) @@ ("4" :> 4) @@
    ("5" :> 5) @@ ("6" :> 6) @@ ("7" :> 7) @@ ("8" :> 8) @@ ("9" :> 9)

AllDigits(s) == \A i \in 1..Len(s) : s[i] \in Digits

RECURSIVE ToInt(_)
ToInt(s) ==
    IF Len(s) = 0 THEN 0
    ELSE ToInt(SubSeq(s, 1, Len(s) - 1)) * 10 + DigitVal[s[Len(s)]]

\* Index of the first occurrence of character c in s, 0 when there is none.
IndexOf(s, c) ==
    IF \E i \in 1..Len(s) : s[i] = c
    THEN CHOOSE i \in 1..Len(s) : s[i] = c /\ \A j \in 1..(i - 1) : s[j] # c
    ELSE 0

\* s.split(c)[0]
SplitFirst(s, c) ==
    IF IndexOf(s, c) = 0 THEN s ELSE SubSeq(s, 1, IndexOf(s, c) - 1)

\* sub in s, for two strings
IsSubstring(sub, s) ==
    \E i \in 1..(Len(s) - Len(sub) + 1) : SubSeq(s, i, i + Len(sub) - 1) = sub

TimestampKey == <<"t", "i", "m", "e", "s", "t", "a", "m", "p">>

-----------------------------------------------------------------------------
\* datetime.strptime(s, '%Y-%m-%d') and datetime comparison

\* %m : 1[0-2]|0[1-9]|[1-9]
MonthRe(m) ==
    /\ AllDigits(m)
    /\ \/ Len(m) = 1 /\ m[1] # "0"
       \/ Len(m) = 2 /\ m[1] = "1" /\ m[2] \in {"0", "1", "2"}
       \/ Len(m) = 2 /\ m[1] = "0" /\ m[2] # "0"

\* %d : 3[0-1]|[1-2]\d|0[1-9]|[1-9]| [1-9]
DayRe(d) ==
    \/ Len(d) = 1 /\ d[1] \in Digits /\ d[1] # "0"
    \/ Len(d) = 2 /\ d[1] = "3" /\ d[2] \in {"0", "1"}
    \/ Len(d) = 2 /\ d[1] \in {"1", "2"} /\ d[2] \in Digits
    \/ Len(d) = 2 /\ d[1] \in {"0", " "} /\ d[2] \in Digits /\ d[2] # "0"

IsLeap(y) == y % 4 = 0 /\ (y % 100 # 0 \/ y % 400 = 0)

DaysInMonth(y, m) ==
    IF m = 2 THEN (IF IsLeap(y) THEN 29 ELSE 28)
    ELSE IF m \in {4, 6, 9, 11} THEN 30 ELSE 31

\* The day field of a matched %d, with its optional leading blank dropped.
DayDigits(d) == IF d[1] = " " THEN SubSeq(d, 2, Len(d)) ELSE d

\* Result of strptime: ok = FALSE stands for the ValueError it raises.
StrpTime(s) ==
    LET y == SubSeq(s, 1, 4)
        rest == SubSeq(s, 6, Len(s))
        i == IndexOf(rest, "-")
        m == SubSeq(rest, 1, i - 1)
        d == SubSeq(rest, i + 1, Len(rest))
        matches == /\ Len(s) >= 5
                   /\ AllDigits(y)
                   /\ s[5] = "-"
                   /\ i > 0
                   /\ MonthRe(m)
                   /\ DayRe(d)
        inRange == /\ ToInt(y) >= 1
                   /\ ToInt(DayDigits(d)) <= DaysInMonth(ToInt(y), ToInt(m))
    IN  IF matches /\ inRange
        THEN [ok |-> TRUE, date |-> <<ToInt(y), ToInt(m), ToInt(DayDigits(d))>>]
        ELSE [ok |-> FALSE, date |-> <<0, 0, 0>>]

\* a < b on dates <<year, month, day>>: DateLE with `<` written for `<=`
DateLT(a, b) ==
    \/ a[1] < b[1]
    \/ a[1] = b[1] /\ a[2] < b[2]
    \/ a[1] = b[1] /\ a[2] = b[2] /\ a[3] < b[3]

\* a <= b on two datetimes at midnight, as dates <<year, month, day>>
DateLE(a, b) ==
    \/ a[1] < b[1]
    \/ a[1] = b[1] /\ a[2] < b[2]
    \/ a[1] = b[1] /\ a[2] = b[2] /\ a[3] <= b[3]

-----------------------------------------------------------------------------
\* Python dict and container operations used by check_appointments

\* HasTimestamp without the membership test: every container answers yes
HasTimestampAlways(slot) ==
    IF slot.type \in {"dict", "str", "list"} THEN "True" ELSE "TypeError"

\* 'timestamp' in slot : "True", "False", or the exception it raises
HasTimestamp(slot) ==
    CASE slot.type = "dict" ->
            IF "timestamp" \in DOMAIN slot.v THEN "True" ELSE "False"
      [] slot.type = "str" ->
            IF IsSubstring(TimestampKey, slot.v) THEN "True" ELSE "False"
      [] slot.type = "list" ->
            IF \E i \in 1..Len(slot.v) :
                   /\ slot.v[i].type = "str"
                   /\ slot.v[i].v = TimestampKey
            THEN "True" ELSE "False"
      [] OTHER -> "TypeError"

\* slot['timestamp']
GetTimestamp(slot) ==
    CASE slot.type = "dict" ->
            IF "timestamp" \in DOMAIN slot.v
            THEN [exc |-> "none", val |-> slot.v["timestamp"]]
            ELSE [exc |-> "KeyError", val |-> PyNone]
      [] OTHER -> [exc |-> "TypeError", val |-> PyNone]

\* slot.get(key, default)
DictGet(slot, key, default) ==
    IF key \in DOMAIN slot.v THEN slot.v[key] ELSE default

\* OutputSlot storing the date portion in place of the whole timestamp
OutputSlotDateOnly(slot) ==
    PyDict([startTimestamp |-> PyStr(SplitFirst(slot.v["timestamp"].v, "T")),
            active |-> DictGet(slot, "active", PyInt(0)),
            total |-> DictGet(slot, "total", PyInt(0))])

\* The dict appended to available_slots
OutputSlot(slot) ==
    PyDict([startTimestamp |-> slot.v["timestamp"],
            active |-> DictGet(slot, "active", PyInt(0)),
            total |-> DictGet(slot, "total", PyInt(0))])

\* One iteration of `for slot in appointments`: the exception raised, if
\* any, and the elements appended to available_slots.
ProcessSlot(slot, target) ==
    LET has == HasTimestamp(slot)
        ts == GetTimestamp(slot)
        parsed == StrpTime(SplitFirst(ts.val.v, "T"))
    IN  IF has = "TypeError" THEN [exc |-> "TypeError", out |-> <<>>]
        ELSE IF has = "False" THEN [exc |-> "none", out |-> <<>>]
        ELSE IF ts.exc # "none" THEN [exc |-> ts.exc, out |-> <<>>]
        ELSE IF ts.val.type # "str" THEN [exc |-> "AttributeError", out |-> <<>>]
        ELSE IF ~parsed.ok THEN [exc |-> "ValueError", out |-> <<>>]
        ELSE IF ~Truthy(target) \/ DateLE(parsed.date, target.v)
             THEN [exc |-> "none", out |-> <<OutputSlot(slot)>>]
             ELSE [exc |-> "none", out |-> <<>>]

\* The whole loop over the working list, stopping at the first exception.
RECURSIVE FilterSlots(_, _)
FilterSlots(appts, target) ==
    IF Len(appts) = 0 THEN [exc |-> "none", out |-> <<>>]
    ELSE LET first == ProcessSlot(Head(appts), target)
             rest == FilterSlots(Tail(appts), target)
         IN  IF first.exc # "none" THEN first
             ELSE [exc |-> rest.exc, out |-> first.out \o rest.out]

-----------------------------------------------------------------------------
\* Exceptions

\* IsRequestException narrowed to `except requests.exceptions.ConnectionError`
IsConnectionErrorOnly(e) == e = "ConnectionError"

\* except requests.exceptions.RequestException
IsRequestException(e) ==
    e \in {"ConnectionError", "Timeout", "HTTPError", "RequestsJSONDecodeError"}

\* AllCredentials with the recipient left out of the list
AllCredentialsButRecipient(sender, password, recipient) ==
    Truthy(sender) /\ Truthy(password)

\* all([self.email_sender, self.email_password, self.email_recipient])
AllCredentials(sender, password, recipient) ==
    Truthy(sender) /\ Truthy(password) /\ Truthy(recipient)

-----------------------------------------------------------------------------
\* Inputs: constructor arguments, environment, HTTP responses

YearStr == <<"2", "0", "2", "5">>
MonthStrs == {<<"0", "4">>, <<"0", "5">>, <<"5">>, <<"0", "6">>, <<"1", "3">>}
DayStrs == {<<"0", "1">>, <<"1">>, <<"3", "1">>}
TimeSuffixes ==
    { <<>>,
      <<"T", "0", "9", ":", "0", "0", ":", "0", "0">>,
      <<"T", "2", "3", ":", "5", "9", ":", "5", "9">>,
      <<" ", "0", "9", ":", "0", "0">> }

DateStrs == {YearStr \o <<"-">> \o m \o <<"-">> \o d : m \in MonthStrs, d \in DayStrs}

OtherTimestampStrs ==
    { <<>>,
      <<"T">>,
      <<"2", "0", "2", "4", "-", "1", "2", "-", "3", "1", "T", "0", "9">>,
      <<"2", "0", "2", "6", "-", "0", "1", "-", "0", "1", "T", "0", "9">>,
      <<"0", "5", "/", "0", "1", "/", "2", "0", "2", "5">> }

TimestampStrs == {d \o t : d \in DateStrs, t \in TimeSuffixes} \cup OtherTimestampStrs

\* target_date arguments accepted by the constructor: None, '' and the
\* strings strptime parses (any other argument raises in __init__).
TargetDateArgs ==
    { PyNone, PyStr(<<>>),
      PyStr(<<"2", "0", "2", "5", "-", "0", "5", "-", "0", "1">>),
      PyStr(<<"2", "0", "2", "5", "-", "5", "-", "3", "1">>) }

\* self.target_date as __init__ computes it
ParseTargetDate(arg) ==
    IF Truthy(arg) THEN PyDatetime(StrpTime(arg.v).date) ELSE PyNone

CheckIntervals == {300, 600}

\* os.environ.get(...) : unset, set to '', or set to an address / secret
EnvValues == {PyNone, PyStr(<<>>), PyStr(<<"x">>)}

Absent == [type |-> "absent"]

\* A JSON object with the given members; Absent leaves the member out.
MkDict(ts, active, total, loc) ==
    LET val == [k \in {"timestamp", "active", "total", "locationId"} |->
                   CASE k = "timestamp" -> ts
                     [] k = "active" -> active
                     [] k = "total" -> total
                     [] OTHER -> loc]
        keys == {k \in DOMAIN val : val[k] # Absent}
    IN  PyDict([k \in keys |-> val[k]])

CountValues == {Absent} \cup {PyInt(n) : n \in 0..MaxCount}

TimestampValues ==
    {Absent, PyNone, PyInt(5)} \cup {PyStr(t) : t \in TimestampStrs}

ObjectBodies ==
    {MkDict(ts, a, t, Absent) : ts \in TimestampValues, a \in CountValues, t \in CountValues}
    \cup {MkDict(Absent, a, t, PyInt(5001)) : a \in CountValues, t \in CountValues}

OtherBodies ==
    { PyNone, PyBool(FALSE), PyBool(TRUE), PyInt(0), PyInt(5),
      PyStr(<<>>), PyStr(<<"n", "o">>), PyStr(TimestampKey),
      PyList(<<>>), PyList(<<PyStr(TimestampKey)>>), PyList(<<PyInt(5)>>) }

JsonBodies == ObjectBodies \cup OtherBodies

\* What requests.get / raise_for_status / response.json() can do: raise,
\* or return a parsed body.  A body that is not JSON (an empty body) raises
\* requests' JSONDecodeError or, with older requests, json's ValueError.
HttpOutcomes ==
    {[raised |-> e, emptyBody |-> FALSE, body |-> PyNone] :
        e \in {"ConnectionError", "Timeout", "HTTPError"}}
    \cup {[raised |-> e, emptyBody |-> TRUE, body |-> PyNone] :
        e \in {"RequestsJSONDecodeError", "JSONDecodeError"}}
    \cup {[raised |-> "none", emptyBody |-> FALSE, body |-> b] : b \in JsonBodies}

NoResponse == [raised |-> "pending", emptyBody |-> FALSE, body |-> PyNone]

-----------------------------------------------------------------------------
\* State

VARIABLES
    target_date,      \* self.target_date
    check_interval,   \* self.check_interval
    email_sender,     \* self.email_sender
    email_password,   \* self.email_password
    email_recipient,  \* self.email_recipient
    pc,               \* position of the single thread in run()
    response,         \* outcome of the HTTP request
    appointments,     \* value returned by check_appointments
    stdout,           \* printed lines, by kind
    net,              \* network operations attempted, in order
    smtp,             \* how each step of the SMTP session ended
    msg,              \* the MIMEText message composed by send_notification
    exc,              \* exception propagating, "none" when there is none
    notifyCalls       \* calls of send_notification

config == <<target_date, check_interval, email_sender, email_password, email_recipient>>
vars == <<target_date, check_interval, email_sender, email_password, email_recipient,
          pc, response, appointments, stdout, net, smtp, msg, exc, notifyCalls>>

NoSmtp == [connect |-> "none", login |-> "none", sendmail |-> "none", quit |-> "none"]

Init ==
    /\ target_date \in {ParseTargetDate(a) : a \in TargetDateArgs}
    /\ check_interval \in CheckIntervals
    /\ email_sender \in EnvValues
    /\ email_password \in EnvValues
    /\ email_recipient \in EnvValues
    /\ pc = "run"
    /\ response = NoResponse
    /\ appointments = PyNone
    /\ stdout = <<>>
    /\ net = <<>>
    /\ smtp = NoSmtp
    /\ msg = PyNone
    /\ exc = "none"
    /\ notifyCalls = 0

-----------------------------------------------------------------------------
\* run(): banner
RunStart ==
    /\ pc = "run"
    /\ stdout' = stdout \o <<"Starting", "LookingFor">>
    /\ pc' = "check_appointments"
    /\ UNCHANGED <<config, response, appointments, net, smtp, msg, exc, notifyCalls>>

\* check_appointments(): the request, raise_for_status, response.json() and
\* the except clause
HttpGet ==
    /\ pc = "check_appointments"
    /\ net' = Append(net, "GET")
    /\ \E o \in HttpOutcomes :
        /\ response' = o
        /\ IF o.raised = "none"
           THEN /\ pc' = "filter"
                /\ UNCHANGED <<stdout, appointments, exc>>
           ELSE IF IsRequestException(o.raised)
           THEN /\ stdout' = Append(stdout, "ErrorChecking")
                /\ appointments' = PyNone
                /\ pc' = "run_check"
                /\ UNCHANGED exc
           ELSE /\ exc' = o.raised
                /\ pc' = "crashed"
                /\ UNCHANGED <<stdout, appointments>>
    /\ UNCHANGED <<config, smtp, msg, notifyCalls>>

\* check_appointments(): the falsy test, the loop and the report
Filter ==
    /\ pc = "filter"
    /\ IF ~Truthy(response.body)
       THEN /\ stdout' = Append(stdout, "NoAppointments")
            /\ appointments' = PyNone
            /\ pc' = "run_check"
            /\ UNCHANGED exc
       ELSE LET r == FilterSlots(<<response.body>>, target_date)
            IN  IF r.exc # "none"
                THEN /\ exc' = r.exc
                     /\ pc' = "crashed"
                     /\ UNCHANGED <<stdout, appointments>>
                ELSE /\ stdout' = stdout \o [i \in 1..Len(r.out) |-> "FoundSlots"]
                     /\ appointments' = PyList(r.out)
                     /\ pc' = "run_check"
                     /\ UNCHANGED exc
    /\ UNCHANGED <<config, response, net, smtp, msg, notifyCalls>>

\* RunCheckResult testing `if appointments is not None:`
RunCheckResultNotNone ==
    /\ pc = "run_check"
    /\ IF appointments # PyNone
       THEN /\ stdout' = Append(stdout, "FoundCount")
            /\ notifyCalls' = notifyCalls + 1
            /\ pc' = "send_notification"
       ELSE /\ pc' = "done"
            /\ UNCHANGED <<stdout, notifyCalls>>
    /\ UNCHANGED <<config, response, appointments, net, smtp, msg, exc>>

\* RunCheckResult inside a `while True:` loop: an empty result polls again
RunCheckResultLoop ==
    /\ pc = "run_check"
    /\ IF Truthy(appointments)
       THEN /\ stdout' = Append(stdout, "FoundCount")
            /\ notifyCalls' = notifyCalls + 1
            /\ pc' = "send_notification"
       ELSE /\ pc' = "check_appointments"
            /\ UNCHANGED <<stdout, notifyCalls>>
    /\ UNCHANGED <<config, response, appointments, net, smtp, msg, exc>>

\* run(): `if appointments:` and the call of send_notification
RunCheckResult ==
    /\ pc = "run_check"
    /\ IF Truthy(appointments)
       THEN /\ stdout' = Append(stdout, "FoundCount")
            /\ notifyCalls' = notifyCalls + 1
            /\ pc' = "send_notification"
       ELSE /\ pc' = "done"
            /\ UNCHANGED <<stdout, notifyCalls>>
    /\ UNCHANGED <<config, response, appointments, net, smtp, msg, exc>>

\* The message: one Date / Active Slots / Total Slots paragraph per slot
ComposeMessage(apts, sender, recipient) ==
    [Subject |-> "Global Entry Appointment Available!",
     From |-> sender,
     To |-> recipient,
     body |-> [i \in 1..Len(apts) |->
                  [Date |-> apts[i].v["startTimestamp"],
                   ActiveSlots |-> apts[i].v["active"],
                   TotalSlots |-> apts[i].v["total"]]]]

\* send_notification(): the configuration check and the message
SendNotification ==
    /\ pc = "send_notification"
    /\ IF ~AllCredentials(email_sender, email_password, email_recipient)
       THEN /\ stdout' = Append(stdout, "ConfigMissing")
            /\ pc' = "done"
            /\ UNCHANGED msg
       ELSE /\ msg' = ComposeMessage(appointments.v, email_sender, email_recipient)
            /\ pc' = "smtp_connect"
            /\ UNCHANGED stdout
    /\ UNCHANGED <<config, response, appointments, net, smtp, exc, notifyCalls>>

\* smtplib.SMTP_SSL('smtp.gmail.com', 465)
SmtpConnect ==
    /\ pc = "smtp_connect"
    /\ net' = Append(net, "CONNECT")
    /\ \E ok \in BOOLEAN :
        IF ok
        THEN /\ smtp' = [smtp EXCEPT !.connect = "ok"]
             /\ pc' = "smtp_login"
             /\ UNCHANGED stdout
        ELSE /\ smtp' = [smtp EXCEPT !.connect = "error"]
             /\ stdout' = Append(stdout, "ErrorSending")
             /\ pc' = "done"
    /\ UNCHANGED <<config, response, appointments, msg, exc, notifyCalls>>

\* smtp_server.login(...)
SmtpLogin ==
    /\ pc = "smtp_login"
    /\ net' = Append(net, "LOGIN")
    /\ \E ok \in BOOLEAN :
        IF ok
        THEN /\ smtp' = [smtp EXCEPT !.login = "ok"]
             /\ pc' = "smtp_sendmail"
             /\ UNCHANGED exc
        ELSE /\ smtp' = [smtp EXCEPT !.login = "error"]
             /\ exc' = "SMTPAuthenticationError"
             /\ pc' = "smtp_exit"
    /\ UNCHANGED <<config, response, appointments, stdout, msg, notifyCalls>>

\* smtp_server.sendmail(...)
SmtpSendmail ==
    /\ pc = "smtp_sendmail"
    /\ net' = Append(net, "SENDMAIL")
    /\ \E ok \in BOOLEAN :
        IF ok
        THEN /\ smtp' = [smtp EXCEPT !.sendmail = "ok"]
             /\ UNCHANGED exc
        ELSE /\ smtp' = [smtp EXCEPT !.sendmail = "error"]
             /\ exc' = "SMTPException"
    /\ pc' = "smtp_exit"
    /\ UNCHANGED <<config, response, appointments, stdout, msg, notifyCalls>>

\* SmtpExit without regard to an exception raised inside the `with` block
SmtpExitForgetful ==
    /\ pc = "smtp_exit"
    /\ net' = Append(net, "QUIT")
    /\ \E q \in {"ok", "disconnected", "error"} :
        /\ smtp' = [smtp EXCEPT !.quit = q]
        /\ IF q # "error"
           THEN stdout' = Append(stdout, "SentOK")
           ELSE stdout' = Append(stdout, "ErrorSending")
    /\ exc' = "none"
    /\ pc' = "done"
    /\ UNCHANGED <<config, response, appointments, msg, notifyCalls>>

\* Leaving the `with` block (SMTP.__exit__ sends QUIT: a reply other than
\* 221 raises, a dropped connection is ignored), then the confirmation or
\* the except clause.
SmtpExit ==
    /\ pc = "smtp_exit"
    /\ net' = Append(net, "QUIT")
    /\ \E q \in {"ok", "disconnected", "error"} :
        /\ smtp' = [smtp EXCEPT !.quit = q]
        /\ IF exc = "none" /\ q # "error"
           THEN stdout' = Append(stdout, "SentOK")
           ELSE stdout' = Append(stdout, "ErrorSending")
    /\ exc' = "none"
    /\ pc' = "done"
    /\ UNCHANGED <<config, response, appointments, msg, notifyCalls>>

Next ==
    \/ RunStart
    \/ HttpGet
    \/ Filter
    \/ RunCheckResult
    \/ SendNotification
    \/ SmtpConnect
    \/ SmtpLogin
    \/ SmtpSendmail
    \/ SmtpExit

Spec == Init /\ [][Next]_vars

-----------------------------------------------------------------------------
\* Vocabulary of the properties

Count(seq, x) == Cardinality({i \in 1..Len(seq) : seq[i] = x})
Printed(line) == Count(stdout, line) > 0

Banner == <<"Starting", "LookingFor">>
Terminated == pc \in {"done", "crashed"}
Filtered == pc \notin {"run", "check_appointments", "filter"}

\* The fetch returned a parsed JSON value that is not falsy.
FetchedNonEmpty == response.raised = "none" /\ Truthy(response.body)

\* The fetch returned a parsed, non-empty JSON object.
FetchedRecord ==
    /\ response.raised = "none"
    /\ response.body.type = "dict"
    /\ DOMAIN response.body.v # {}

HasTimestampField == FetchedRecord /\ "timestamp" \in DOMAIN response.body.v

\* The characters of the timestamp before its first 'T'.
DatePortion == SplitFirst(response.body.v["timestamp"].v, "T")

ParseableTimestamp ==
    /\ HasTimestampField
    /\ response.body.v["timestamp"].type = "str"
    /\ StrpTime(DatePortion).ok

DateNum(d) == d[1] * 10000 + d[2] * 100 + d[3]

OnOrBeforeTarget ==
    \/ target_date.type = "NoneType"
    \/ DateNum(StrpTime(DatePortion).date) <= DateNum(target_date.v)

\* check_appointments returned a collection holding at least one slot.
NonEmptyCollection == appointments.type = "list" /\ Len(appointments.v) > 0

Present(c) == c.type = "str" /\ Len(c.v) > 0
AllThreePresent == Present(email_sender) /\ Present(email_password) /\ Present(email_recipient)

SmtpActions == {"CONNECT", "LOGIN", "SENDMAIL", "QUIT"}
NoSmtpAction == \A i \in 1..Len(net) : net[i] \notin SmtpActions

-----------------------------------------------------------------------------
\* C1: a fetched non-empty record is in the Available-Slots Collection exactly
\* when it carries a parseable timestamp and (no target date is configured or
\* the date portion of the timestamp is on or before the target date).
C1_IncludedIffOnOrBeforeTarget ==
    (Filtered /\ FetchedNonEmpty) =>
        (NonEmptyCollection <=> (ParseableTimestamp /\ OnOrBeforeTarget))

\* A slot dated exactly on the target date, late in the day, was included.
C1_Witness ==
    /\ pc = "done"
    /\ ParseableTimestamp
    /\ target_date.type = "datetime"
    /\ StrpTime(DatePortion).date = target_date.v
    /\ IsSubstring(<<"T", "2", "3">>, response.body.v["timestamp"].v)
    /\ NonEmptyCollection

\* C2: send_notification is invoked exactly when check_appointments returned
\* a non-empty collection, and never otherwise.
C2_NotifyIffNonEmpty ==
    /\ notifyCalls <= 1
    /\ notifyCalls > 0 => NonEmptyCollection
    /\ Terminated => (notifyCalls = 1 <=> NonEmptyCollection)

\* A run in which a slot survived filtering and the notifier was called.
C2_Witness == pc = "done" /\ notifyCalls = 1 /\ NonEmptyCollection

\* C3: with a credential missing, send_notification prints the warning and
\* performs no SMTP action; SMTP actions happen only with all three present.
C3_NoSmtpWithoutCredentials ==
    /\ ~AllThreePresent => (NoSmtpAction /\ smtp = NoSmtp)
    /\ Printed("ConfigMissing") => ~AllThreePresent
    /\ (pc = "done" /\ notifyCalls = 1 /\ ~AllThreePresent) =>
           /\ Count(stdout, "ConfigMissing") = 1
           /\ ~Printed("SentOK") /\ ~Printed("ErrorSending")

\* The notifier was called with only the recipient missing and gave up.
C3_Witness ==
    /\ pc = "done"
    /\ notifyCalls = 1
    /\ Present(email_sender) /\ Present(email_password) /\ ~Present(email_recipient)
    /\ Printed("ConfigMissing")

\* C4: for a connection error, a timeout, a non-2xx status or a 200 response
\* with any JSON value as body, no exception escapes run().
C4_NoExceptionEscapes ==
    response.raised \in {"none", "ConnectionError", "Timeout", "HTTPError"} =>
        pc # "crashed"

\* C5: a network error or non-2xx status is caught, reported by one error
\* line and yields no result; no notification follows and nothing escapes.
C5_FetchErrorIsNoResult ==
    response.raised \in {"ConnectionError", "Timeout", "HTTPError"} =>
        /\ pc \in {"run_check", "done"}
        /\ exc = "none"
        /\ appointments = PyNone
        /\ stdout = Append(Banner, "ErrorChecking")
        /\ net = <<"GET">>
        /\ notifyCalls = 0

\* A run that ended after a non-2xx status.
C5_Witness == pc = "done" /\ response.raised = "HTTPError"

\* C6: a record that passes the filter appears exactly once, as the triple
\* of its unchanged timestamp string, its active count (0 when absent) and
\* its total count (0 when absent); the collection holds at most one slot.
C6_OutputTriple ==
    /\ appointments.type = "list" => Len(appointments.v) <= 1
    /\ (Filtered /\ FetchedRecord /\ ParseableTimestamp /\ OnOrBeforeTarget) =>
           /\ appointments.type = "list"
           /\ Len(appointments.v) = 1
           /\ appointments.v[1].type = "dict"
           /\ DOMAIN appointments.v[1].v = {"startTimestamp", "active", "total"}
           /\ appointments.v[1].v["startTimestamp"] = response.body.v["timestamp"]
           /\ appointments.v[1].v["active"] =
                  (IF "active" \in DOMAIN response.body.v
                   THEN response.body.v["active"] ELSE PyInt(0))
           /\ appointments.v[1].v["total"] =
                  (IF "total" \in DOMAIN response.body.v
                   THEN response.body.v["total"] ELSE PyInt(0))

\* A kept slot whose timestamp has a time part, no active and a total count.
C6_Witness ==
    /\ pc = "done"
    /\ NonEmptyCollection
    /\ IsSubstring(<<"T", "0", "9">>, response.body.v["timestamp"].v)
    /\ "active" \notin DOMAIN response.body.v
    /\ "total" \in DOMAIN response.body.v
    /\ response.body.v["total"] = PyInt(1)

\* C7: a non-empty record without a timestamp field yields an empty
\* collection, no exception, no error line and no notification.
C7_MissingTimestampSkipped ==
    (Filtered /\ FetchedRecord /\ ~HasTimestampField) =>
        /\ pc \in {"run_check", "done"}
        /\ exc = "none"
        /\ appointments = PyList(<<>>)
        /\ stdout = Banner
        /\ notifyCalls = 0
        /\ NoSmtpAction

\* A run that ended after a record with counts but no timestamp.
C7_Witness ==
    /\ pc = "done"
    /\ FetchedRecord
    /\ ~HasTimestampField
    /\ "active" \in DOMAIN response.body.v

\* C8: for an empty response body and for a falsy JSON value the result is
\* empty, "No appointments found" is printed exactly once and no
\* notification is attempted.
C8_FalsyFetchReportsNoAppointments ==
    (Terminated /\ (response.emptyBody \/ (response.raised = "none" /\ ~Truthy(response.body)))) =>
        /\ pc = "done"
        /\ ~NonEmptyCollection
        /\ Count(stdout, "NoAppointments") = 1
        /\ notifyCalls = 0

LoginBeforeSendmail ==
    \A i \in 1..Len(net) :
        net[i] = "SENDMAIL" => (smtp.login = "ok" /\ \E j \in 1..(i - 1) : net[j] = "LOGIN")

SmtpFailed == "error" \in {smtp.connect, smtp.login, smtp.sendmail}
SmtpStepsCompleted == smtp.connect = "ok" /\ smtp.login = "ok" /\ smtp.sendmail = "ok"

SmtpErrorsReported ==
    /\ ~(Printed("SentOK") /\ Printed("ErrorSending"))
    /\ SmtpFailed => pc \in {"smtp_exit", "done"}
    /\ (pc = "done" /\ SmtpFailed) => Count(stdout, "ErrorSending") = 1

\* C10 as stated: the confirmation line is printed exactly when connect,
\* login and sendmail all completed without error.
C10_ConfirmationIffThreeSteps ==
    /\ LoginBeforeSendmail
    /\ SmtpErrorsReported
    /\ pc = "done" => (Printed("SentOK") <=> SmtpStepsCompleted)

\* C10 amended: the confirmation line is printed exactly when connect, login
\* and sendmail all completed without error and closing the session on
\* leaving the with block raised no error either.
C10_ConfirmationIffSessionClean ==
    /\ LoginBeforeSendmail
    /\ SmtpErrorsReported
    /\ Printed("SentOK") => SmtpStepsCompleted
    /\ pc = "done" =>
           (Printed("SentOK") <=> (SmtpStepsCompleted /\ smtp.quit # "error"))
    /\ (pc = "done" /\ smtp.quit = "error") => Count(stdout, "ErrorSending") = 1

\* A session whose three steps succeeded and whose close was clean.
C10_Witness ==
    /\ pc = "done"
    /\ SmtpStepsCompleted
    /\ smtp.quit = "ok"
    /\ Printed("SentOK")

====
